---- MODULE Spec2Model ----
(***************************************************************************)
(* The play / stop / scrub engine of the motion chart (src/motion.js and   *)
(* its tab-indented twin src/unnamed/part_000; line numbers below are of   *)
(* part_000).                                                              *)
(*                                                                         *)
(* Numbers.  A progress fraction and a fractional year are kept in fixed   *)
(* point as the integer q * Scale, Scale = 209 * Steps; pVals.currYear,    *)
(* which the script always rounds, is the plain integer year, and a        *)
(* duration is in ms.  The JavaScript values null, NaN and undefined are   *)
(* encoded as negative integers, outside the range of every number the     *)
(* script computes from 1800..2009 and progress >= 0.                      *)
(*                                                                         *)
(* Time.  The browser calls the d3 timer once per animation frame.  The    *)
(* action Frame is one such call; the elapsed time it hands to a sweep is  *)
(* an input, k / Steps of the sweep's duration for k in 0..Steps (k =      *)
(* Steps standing for every elapsed >= duration).                          *)
(*                                                                         *)
(* Data.  interpolateValues is a pure function of a series and a year; it  *)
(* is followed on its own, in InterpSpec, over exact fractions.            *)
(***************************************************************************)
EXTENDS Integers, Sequences, FiniteSets, TLC

\* ---------------------------------------------------------------- bounds
\* Sampled instants per sweep: a tick sees elapsed / duration = k / Steps.
Steps == 2
\* Transitions that may be scheduled on the svg node at once.
MaxSched == 2
\* The interior year a slider drag or a pointer position may select.
SlideYear == 1900
\* The longest series handed to interpolateValues.
MaxLen == 3

\* ------------------------------------------------------ program constants
yearMin == 1800
yearMax == 2009
duration == 209000
allWidth == yearMax - yearMin
Scale == allWidth * Steps

null == -1
NaN == -2
undefined == -3

IsNumber(v) == v >= 0

\* ------------------------------------------------------------- the state
VARIABLES
    pVals,        \* window.pVals: [lastTween, currTween, currYear]
    schedules,    \* svg node's __transition: the live d3 transitions, by id
    overlay,      \* the overlay rect: [armed], its mousemove handler is set
    frame,        \* the last call of displayYear: [year, by, playing] and
                  \* what it left on the page: [label, slider, handle]
    resume,       \* the year the last tick showed when stop() interrupted
                  \* its sweep, null after a slide or a sweep's start (history)
    interp        \* a call of interpolateValues: [values, year, result]

vars == <<pVals, schedules, overlay, frame, resume, interp>>

\* The mutable state as one value, threaded through the handlers.
Cur ==
    [pVals |-> pVals, schedules |-> schedules, overlay |-> overlay,
     frame |-> frame, resume |-> resume]

\* ------------------------------------------------------ JavaScript values
\* a + b of JavaScript numbers: undefined and NaN give NaN, null counts 0.
Plus(a, b) ==
    IF a \in {NaN, undefined} \/ b \in {NaN, undefined} THEN NaN
    ELSE (IF a = null THEN 0 ELSE a) + (IF b = null THEN 0 ELSE b)

\* Math.round of a fixed-point year: floor(y + 1/2), NaN for NaN.
MathRound(y) ==
    IF ~IsNumber(y) THEN NaN ELSE (2 * y + Scale) \div (2 * Scale)

\* d3.interpolateNumber(a, b)(t) = a + (b - a) * t, in fixed point.
interpolateNumber(a, b, t) ==
    IF ~IsNumber(t) THEN NaN ELSE a * Scale + (b - a) * t

\* d3.easeLinear
easeLinear(t) == t

\* x || 1800: null, NaN, undefined and 0 are falsy.
OrElse(x, d) == IF IsNumber(x) /\ x # 0 THEN x ELSE d

\* The numbers interpolateValues computes are kept exact, as fractions
\* [n, d] with d # 0.
Rat(n, d) == [n |-> n, d |-> d]

\* 1 - t
RatOneMinus(t) == Rat(t.d - t.n, t.d)

\* v * t for a whole v
RatTimes(v, t) == Rat(v * t.n, t.d)

\* x + y
RatPlus(x, y) ==
    IF x.d = y.d THEN Rat(x.n + y.n, x.d)
    ELSE Rat(x.n * y.d + y.n * x.d, x.d * y.d)

Sgn(k) == IF k > 0 THEN 1 ELSE IF k < 0 THEN -1 ELSE 0

\* x === y and x < y of two such numbers
RatEq(x, y) == x.n * y.d = y.n * x.d

RatLess(x, y) == Sgn(x.n * y.d - y.n * x.d) * Sgn(x.d) * Sgn(y.d) < 0

\* --------------------------------------------------------- d3 transitions
\* A live transition of the svg node: [id, name, sweep, state, duration,
\* elapsed, tween, prog, from].  name is "yeah" (transition()) or "null"
\* (svg.transition() of enableInteraction); sweep tells that it carries the
\* tween and the handlers of transition(); tween is the start year the
\* closure of tweenYear captured; elapsed is the time of its last tick, in
\* units of duration / Steps;
\* prog (the progress its last tick computed) and from are history.
SweepsIn(m) == {i \in 1..Len(m.schedules) : m.schedules[i].sweep}

ActiveStates == {"STARTING", "STARTED", "RUNNING", "ENDING"}

\* A sweep is between its start event and its end or interruption.
PlayingIn(m) ==
    \E i \in SweepsIn(m) : m.schedules[i].state \in ActiveStates

Get(m, id) ==
    m.schedules[CHOOSE i \in 1..Len(m.schedules) : m.schedules[i].id = id]

Put(m, sch) ==
    [m EXCEPT !.schedules =
        [i \in 1..Len(m.schedules) |->
            IF m.schedules[i].id = sch.id THEN sch ELSE m.schedules[i]]]

Delete(m, id) ==
    [m EXCEPT !.schedules = SelectSeq(m.schedules, LAMBDA s : s.id # id)]

NewId(m) ==
    IF m.schedules = <<>> THEN 1 ELSE m.schedules[Len(m.schedules)].id + 1

\* ------------------------------------------------------------ the script
\* $('#slider').slider('value', v) of jQuery UI keeps v trimmed to the
\* slider's [min, max] (NaN stays NaN) and fires change, not slide.
TrimAlignValue(v) ==
    IF ~IsNumber(v) THEN NaN
    ELSE IF v <= yearMin THEN yearMin
    ELSE IF v >= yearMax THEN yearMax
    ELSE v

\* A displayYear whose slider update runs the slide handler as a drag does.
displayYearSliding(m, year, by) ==
    LET v == TrimAlignValue(MathRound(year))
    IN  [m EXCEPT !.frame = [year |-> year, by |-> by,
                             playing |-> PlayingIn(m),
                             label |-> MathRound(year),
                             slider |-> v, handle |-> v],
                  !.pVals.currYear = v,
                  !.pVals.lastTween = ((v - yearMin) * Scale) \div allWidth]

\* displayYear(year): redraw the dots for the year, set the label's text and
\* the slider's value; the slider's change handler sets the handle's text.
\* by names the caller (history).
displayYear(m, year, by) ==
    LET v == TrimAlignValue(MathRound(year))
    IN  [m EXCEPT !.frame = [year |-> year, by |-> by,
                             playing |-> PlayingIn(m),
                             label |-> MathRound(year),
                             slider |-> v, handle |-> v]]

\* tweenYear(): the closure's captured interpolator starts at
\* pVals.currYear || 1800 and ends at 2009.
tweenYear(m) == OrElse(m.pVals.currYear, yearMin)

\* The closure tweenYear returns, called with t.
TweenCall(m, from, t, by) ==
    LET t1 == Plus(t, m.pVals.lastTween)
        yr == interpolateNumber(from, yearMax, t1)
        m1 == [m EXCEPT !.pVals.currTween = t1,
                        !.pVals.currYear = MathRound(yr)]
    IN  displayYear(m1, yr, by)

\* pVals.calRatio()
calRatio(m) ==
    LET diff == m.pVals.currYear - yearMin
    IN  [m EXCEPT !.pVals.lastTween = (diff * Scale) \div allWidth]

\* A transition() that always plays the whole range: no lastTween.
DurationWhole(m) == duration

\* The duration transition() computes: duration - duration * lastTween, ms.
Duration(m) ==
    IF m.pVals.lastTween \in {NaN, undefined} THEN NaN
    ELSE duration
            - (duration * (IF m.pVals.lastTween = null THEN 0
                           ELSE m.pVals.lastTween)) \div Scale

NewSchedule(id, name, sweep, dur, from) ==
    [id |-> id, name |-> name, sweep |-> sweep, state |-> "SCHEDULED",
     duration |-> dur, elapsed |-> null, tween |-> null, prog |-> null,
     from |-> from]

\* A transition() that names its transitions apart.
TransitionNameDistinct(m) ==
    IF \E i \in 1..Len(m.schedules) : m.schedules[i].name = "yeah"
    THEN "yeah2" ELSE "yeah"

\* The name transition() gives its transitions: svg.transition('yeah').
TransitionName(m) == "yeah"

\* transition(): svg.transition('yeah').duration(..).ease(..).tween(..) with
\* its three handlers.  d3 evaluates the duration function at this call and
\* schedules the transition; it starts at the next timer frame.  from
\* (history) is the year the last stop() froze, when this call resumes it.
transition(m) ==
    LET from == IF SweepsIn(m) = {} THEN m.resume ELSE null
    IN  [m EXCEPT !.schedules =
            Append(@, NewSchedule(NewId(m), TransitionName(m), TRUE,
                                  Duration(m), from))]

\* enableInteraction(): svg.transition().duration(0), a transition of the
\* null name, and the overlay's four handlers.
enableInteraction(m) ==
    [m EXCEPT !.schedules =
                Append(@, NewSchedule(NewId(m), "null", FALSE, 0, null)),
              !.overlay.armed = TRUE]

\* t.on('start'): tweenYear(d)(), the closure called without a t.
OnStart(m) == TweenCall(m, tweenYear(m), undefined, "start")

\* t.on('end')
OnEnd(m) == enableInteraction(m)

\* An interrupt handler that restarts: the progress is reset.
OnInterruptReset(m) == [m EXCEPT !.pVals.lastTween = 0]

\* t.on('interrupt')
OnInterrupt(m) == [m EXCEPT !.pVals.lastTween = m.pVals.currTween]

\* The handlers are those of the transitions transition() makes.
On(m, sch, type) ==
    IF ~sch.sweep THEN m
    ELSE CASE type = "start" -> OnStart(m)
           [] type = "end" -> OnEnd(m)
           [] type = "interrupt" -> OnInterrupt(m)

\* svg.interrupt(name) of d3: every transition of the name is removed and
\* its timer stopped; one that had started gets the interrupt event.
RECURSIVE D3Interrupt(_, _, _)
D3Interrupt(m, name, ids) ==
    IF ids = <<>> THEN m
    ELSE LET id == Head(ids)
             sch == Get(m, id)
         IN  IF sch.name # name THEN D3Interrupt(m, name, Tail(ids))
             ELSE LET active == sch.state \in {"STARTED", "RUNNING"}
                      m1 == Delete(m, id)
                      m2 == IF active THEN On(m1, sch, "interrupt") ELSE m1
                  IN  D3Interrupt(m2, name, Tail(ids))

Ids(m) == [i \in 1..Len(m.schedules) |-> m.schedules[i].id]

\* stopPlaying(): svg.interrupt('yeah').  resume (history) keeps the year
\* the last tick of the interrupted sweep showed.
stopPlaying(m) ==
    LET run == {i \in SweepsIn(m) : m.schedules[i].state = "RUNNING"}
        m1 == D3Interrupt(m, "yeah", Ids(m))
    IN  IF run = {} THEN m1
        ELSE LET sch == m.schedules[CHOOSE i \in run : TRUE]
             IN  [m1 EXCEPT !.resume =
                    MathRound(interpolateNumber(sch.tween, yearMax, sch.prog))]

\* The loop of d3's start(): a starting transition interrupts the running
\* transition of its name and cancels the older ones not yet started.
RECURSIVE StartLoop(_, _, _)
StartLoop(m, self, ids) ==
    IF ids = <<>> THEN m
    ELSE LET o == Get(m, Head(ids))
         IN  IF o.name # self.name \/ o.id = self.id
             THEN StartLoop(m, self, Tail(ids))
             ELSE IF o.state = "RUNNING"
             THEN StartLoop(On(Delete(m, o.id), o, "interrupt"), self, Tail(ids))
             ELSE IF o.id < self.id
             THEN StartLoop(Delete(m, o.id), self, Tail(ids))
             ELSE StartLoop(m, self, Tail(ids))

\* d3's start(): the loop, the start event, then the tween is initialised
\* (.tween('year', () => tweenYear()) runs after the start handler).
D3Start(m, id) ==
    LET self == Get(m, id)
        yeah == self.sweep
        m1 == StartLoop(m, self, Ids(m))
        m2 == Put([m1 EXCEPT !.resume = IF yeah THEN null ELSE @],
                  [self EXCEPT !.state = "STARTING"])
        m3 == On(m2, self, "start")
    IN  Put(m3, [self EXCEPT !.state = "STARTED",
                             !.tween = IF yeah THEN tweenYear(m3) ELSE null])

\* A tick that takes the instant k for a fraction of any duration, 0 too.
ElapsedLessOfSteps(sch, k) == k < Steps

\* elapsed < self.duration of d3's tick, elapsed being k * duration / Steps
\* for a duration > 0 and any time >= 0 otherwise.
ElapsedLess(sch, k) == sch.duration > 0 /\ k < Steps

\* d3's tick(elapsed): t = ease(elapsed / duration) while elapsed < duration,
\* else t = 1 and the transition ends: end event, then it is removed.
Tick(m, id, elapsed) ==
    LET sch == Get(m, id)
        yeah == sch.sweep
        ending == ~ElapsedLess(sch, elapsed)
        t == IF ending THEN Scale
             ELSE easeLinear((elapsed * Scale) \div Steps)
        m1 == Put(m, [sch EXCEPT !.elapsed = elapsed,
                                 !.state = IF ending THEN "ENDING" ELSE @])
        m2 == IF yeah THEN TweenCall(m1, sch.tween, t, "tick") ELSE m1
        m3 == Put(m2, [Get(m2, id) EXCEPT !.prog = m2.pVals.currTween])
    IN  IF ~ending THEN m3
        ELSE Delete(On(m3, sch, "end"), id)

\* The first tick d3 defers to the end of the frame of the start.
FirstTick(m, id, elapsed) ==
    Tick(Put(m, [Get(m, id) EXCEPT !.state = "RUNNING"]), id, elapsed)

\* One call of the d3 timer: the live transitions in the order of their
\* ids, also those made during the call; a running one ticks, a scheduled
\* one starts and has its first tick.  ks are the instants of the sweeps.
RECURSIVE Flush(_, _, _)
Flush(m, last, ks) ==
    LET rest == {i \in 1..Len(m.schedules) : m.schedules[i].id > last}
    IN  IF rest = {} THEN m
        ELSE LET sch == m.schedules[CHOOSE i \in rest : \A j \in rest : i <= j]
                 yeah == sch.sweep
                 e == IF yeah THEN Head(ks) ELSE 0
                 ks1 == IF yeah THEN Tail(ks) ELSE ks
             IN  IF sch.state = "RUNNING"
                 THEN Flush(Tick(m, sch.id, e), sch.id, ks1)
                 ELSE Flush(FirstTick(D3Start(m, sch.id), sch.id, e),
                            sch.id, ks1)

\* The slider's slide handler, for a drag to ui.value.
slide(m, value) ==
    LET m1 == calRatio([m EXCEPT !.pVals.currYear = value,
                                 !.resume = null])
    IN  displayYear(m1, value * Scale, "slide")

\* mousemove (also bound to touchmove): the pointer's clamped year.
mousemove(m, year) == displayYear(m, year * Scale, "pointer")

\* ------------------------------------------------ the data interpolation
\* A series is a sequence of <<year, value>> pairs; the script's values[k]
\* is the model's values[k + 1].
\* bisect.left(a, x, lo, hi) of d3.bisector(d => d[0]): the least index in
\* lo..hi from which the years are >= x, hi when there is none below hi.
RECURSIVE bisectLeft(_, _, _, _)
bisectLeft(a, x, lo, hi) ==
    IF lo < hi
    THEN LET mid == (lo + hi) \div 2
         IN  IF a[mid + 1][1] < x THEN bisectLeft(a, x, mid + 1, hi)
             ELSE bisectLeft(a, x, lo, mid)
    ELSE lo

\* An interpolateValues with the weights of its two samples exchanged.
interpolateValuesSwapped(values, year) ==
    LET i == bisectLeft(values, year, 0, Len(values) - 1)
        a == values[i + 1]
    IN  IF i > 0
        THEN LET b == values[i]
                 t == Rat(year - a[1], b[1] - a[1])
             IN  RatPlus(RatTimes(a[2], t), RatTimes(b[2], RatOneMinus(t)))
        ELSE Rat(a[2], 1)

\* An interpolateValues that also interpolates at index 0, along the first
\* two samples.
interpolateValuesFromFirstTwo(values, year) ==
    LET i == bisectLeft(values, year, 0, Len(values) - 1)
        j == IF i = 0 /\ Len(values) > 1 THEN 1 ELSE i
        a == values[j + 1]
    IN  IF j > 0
        THEN LET b == values[j]
                 t == Rat(year - a[1], b[1] - a[1])
             IN  RatPlus(RatTimes(a[2], RatOneMinus(t)), RatTimes(b[2], t))
        ELSE Rat(a[2], 1)

\* An interpolateValues that holds the last value beyond the last sample.
interpolateValuesClamped(values, year) ==
    LET i == bisectLeft(values, year, 0, Len(values) - 1)
        a == values[i + 1]
    IN  IF i > 0 /\ year < a[1]
        THEN LET b == values[i]
                 t == Rat(year - a[1], b[1] - a[1])
             IN  RatPlus(RatTimes(a[2], RatOneMinus(t)), RatTimes(b[2], t))
        ELSE Rat(a[2], 1)

\* interpolateValues(values, year)
interpolateValues(values, year) ==
    LET i == bisectLeft(values, year, 0, Len(values) - 1)
        a == values[i + 1]
    IN  IF i > 0
        THEN LET b == values[i]
                 t == Rat(year - a[1], b[1] - a[1])
             IN  RatPlus(RatTimes(a[2], RatOneMinus(t)), RatTimes(b[2], t))
        ELSE Rat(a[2], 1)

\* ------------------------------------------------ the state machine
Playing == PlayingIn(Cur)

Sweeps == SweepsIn(Cur)

Running == {i \in Sweeps : schedules[i].state = "RUNNING"}

\* The years a slider drag selects, and those a pointer position maps to.
SliderValues == {yearMin, SlideYear, yearMax}

PointerYears == {yearMin, SlideYear}

\* d3 numbers its transitions with a counter that only grows, and reads
\* the ids only to order them: a handler's result keeps the live ones in
\* that order, numbered from 1.
Renumber(s) == [i \in 1..Len(s) |-> [s[i] EXCEPT !.id = i]]

Set(m) ==
    /\ pVals' = m.pVals
    /\ schedules' = Renumber(m.schedules)
    /\ overlay' = m.overlay
    /\ frame' = m.frame
    /\ resume' = m.resume
    /\ interp' = interp

\* No call of interpolateValues is followed.
NoCall == [values |-> <<>>, year |-> null, result |-> null]

\* The page after the script's d3.json callback ran.
PageInit ==
    /\ pVals = [lastTween |-> 0, currTween |-> null, currYear |-> null]
    /\ schedules = <<>>
    /\ overlay = [armed |-> FALSE]
    /\ frame = [year |-> yearMin * Scale, by |-> "load", playing |-> FALSE,
                label |-> yearMin, slider |-> yearMin, handle |-> yearMin]
    /\ resume = null

Init == PageInit /\ interp = NoCall

\* click on #play
StartPlaying ==
    /\ Len(schedules) < MaxSched
    /\ Set(transition(Cur))

\* click on #stop
StopPlaying == Set(stopPlaying(Cur))

\* The instants a frame may hand to the sweeps, oldest first: a running
\* sweep moves on, and a sweep of no duration reads none (0).
Instants ==
    LET sw == SelectSeq(schedules, LAMBDA s : s.sweep)
    IN  {ks \in [1..Len(sw) -> 0..Steps] :
            \A j \in 1..Len(sw) :
                IF sw[j].duration <= 0 THEN ks[j] = 0
                ELSE sw[j].state = "RUNNING" => ks[j] > sw[j].elapsed}

\* An animation frame: the d3 timer runs.
Frame ==
    /\ schedules # <<>>
    /\ \E ks \in Instants : Set(Flush(Cur, 0, ks))

\* The user drags the slider.
Slide == \E v \in SliderValues : Set(slide(Cur, v))

\* The pointer enters the overlay for the first time: enableInteraction.
\* (Afterwards mouseover and mouseout only toggle the label's CSS class.)
MouseOver ==
    /\ ~overlay.armed
    /\ Len(schedules) < MaxSched
    /\ Set(enableInteraction(Cur))

\* The pointer moves over the armed overlay.
MouseMove ==
    /\ overlay.armed
    /\ \E y \in PointerYears : Set(mousemove(Cur, y))

Next ==
    \/ StartPlaying
    \/ StopPlaying
    \/ Frame
    \/ Slide
    \/ MouseOver
    \/ MouseMove

Spec == Init /\ [][Next]_vars

\* ------------------------------------- interpolateValues on its own
\* The years and values of the samples, and the years asked for.
SampleYears == {1800, 1850, 1900, 1950}

SampleValues == {100, 200, 300}

QueryYears == {1700, 1800, 1825, 1850, 1875, 1900, 1950, 2000}

\* The series of n samples, their years strictly ascending.
SeriesOfLen(n) ==
    {s \in [1..n -> SampleYears \X SampleValues] :
        \A i \in 1..(n - 1) : s[i][1] < s[i + 1][1]}

Series == UNION {SeriesOfLen(n) : n \in 1..MaxLen}

InterpInit ==
    /\ PageInit
    /\ \E s \in Series : interp = [NoCall EXCEPT !.values = s]

\* interpolateValues(values, year) is called and returns.
Interpolate ==
    /\ \E y \in QueryYears :
          interp' = [interp EXCEPT !.year = y,
                                   !.result = interpolateValues(interp.values, y)]
    /\ UNCHANGED <<pVals, schedules, overlay, frame, resume>>

InterpNext == Interpolate

InterpSpec == InterpInit /\ [][InterpNext]_vars

\* The call in interp has returned.
Returned == interp.year # null

\* The k-th sample of the call's series as numbers.
Value(k) == Rat(interp.values[k][2], 1)

Year(k) == interp.values[k][1]

\* ------------------------------------------------------------ the claims
\* C1: a start() issued while a sweep is running is a no-op: the call
\* schedules nothing and leaves pVals alone, and the running sweep is not
\* interrupted by it at the next frame (a frame that finds the running sweep
\* leaves the stored progress lastTween as it was).
C1_StartWhilePlayingIsNoOp ==
    [][/\ (StartPlaying /\ Running # {}) => UNCHANGED <<schedules, pVals>>
       /\ (Frame /\ Running # {}) => pVals'.lastTween = pVals.lastTween]_vars

\* C2: at most one sweep is active at a time: whatever starts and stops
\* were issued, no two sweeps are both running (ticking).
C2_AtMostOneActiveSweep ==
    Cardinality({i \in Sweeps : schedules[i].state \in ActiveStates}) <= 1

\* C2 witness: start() was called again while a sweep was running, so two
\* sweeps are live, and one of them ticks.
C2_Witness == Cardinality(Sweeps) = 2 /\ Cardinality(Running) = 1

\* C3: when stop() interrupted a sweep whose last tick showed year y and
\* start() follows with no slide in between, the first tick of the new sweep
\* (taken at zero elapsed time) shows year y.
C3_ResumeAtInterruptedYear ==
    [][(/\ Frame
        /\ Len(schedules) = 1
        /\ schedules[1].sweep
        /\ schedules[1].state = "SCHEDULED"
        /\ schedules[1].from # null
        /\ \/ schedules[1].duration <= 0
           \/ schedules' # <<>> /\ schedules'[1].elapsed = 0)
       => MathRound(frame'.year) = schedules[1].from]_vars

\* C4: a sweep runs to the range end: none of its frames is beyond 2009 and
\* the frame of the tick that ends it is at 2009.
C4_SweepEndsAtRangeEnd ==
    [][Frame =>
        /\ frame'.by = "tick" => frame'.year <= yearMax * Scale
        /\ (Sweeps # {} /\ Sweeps' = {}) => frame'.year = yearMax * Scale]_vars

\* C5: no pointer event on the overlay renders a frame while a sweep is
\* playing.
C5_NoPointerFrameWhilePlaying == ~(frame.by = "pointer" /\ frame.playing)

\* C6: while a sweep is running no user-interaction handler (slide, pointer
\* scrub) changes pVals.
C6_OnlyTicksMutateWhilePlaying ==
    [][(Running # {} /\ (Slide \/ MouseMove)) => UNCHANGED pVals]_vars

\* C7: from the stop() that interrupts a running sweep until the next slide
\* or sweep start, no sweep runs, no tick has fired (currTween is still the
\* progress of the sweep's last tick), and the stored progress lastTween is
\* that progress: the progress whose year the last tick displayed.
C7_StopFreezesProgress ==
    resume # null =>
        /\ Running = {}
        /\ pVals.lastTween = pVals.currTween
        /\ MathRound(interpolateNumber(yearMin, yearMax, pVals.lastTween))
                = resume

\* C7 witness: a sweep that had advanced was interrupted by stop().
C7_Witness ==
    /\ resume # null
    /\ Sweeps = {}
    /\ pVals.lastTween > 0
    /\ frame.by = "tick"

\* C8: the progress fractions lastTween and (once set) currTween lie in
\* [0, 1].
C8_ProgressInUnitInterval ==
    /\ pVals.lastTween \in 0..Scale
    /\ pVals.currTween # null => pVals.currTween \in 0..Scale

\* C9: when no sweep is running, lastTween is the fraction of the range that
\* currYear (1800 when unset) has covered, up to the rounding of the year.
C9_ProgressConsistentWithYear ==
    Running = {} =>
        LET cy == IF pVals.currYear = null THEN yearMin ELSE pVals.currYear
            d == interpolateNumber(yearMin, yearMax, pVals.lastTween)
                    - cy * Scale
        IN  /\ IsNumber(pVals.lastTween)
            /\ 2 * d <= Scale
            /\ 2 * d >= -Scale

\* C10: while one sweep runs, each frame handed to displayYear is at a
\* later year than the frame before it, whoever hands it.
C10_FramesStrictlyIncreasing ==
    [][(Cardinality(Sweeps) = 1 /\ Running # {} /\ frame' # frame)
        => frame.year < frame'.year]_vars

\* C11: a start() issued while no sweep runs, with the stored progress
\* p = pVals.lastTween, schedules a sweep of duration 209000 * (1 - p), for
\* every reachable p (to the millisecond the model keeps durations in).
C11_RemainingDuration ==
    [][(StartPlaying /\ Running = {}) =>
        LET s == schedules'[Len(schedules')]
            exact == duration * (Scale - pVals.lastTween)
        IN  /\ Len(schedules') = Len(schedules) + 1
            /\ s.sweep /\ s.state = "SCHEDULED"
            /\ s.duration * Scale - exact \in 0..(Scale - 1)]_vars

\* C11 witness: start() was called at a stored progress strictly between 0
\* and 1: the sweep it scheduled lasts part of the 209000 ms.
C11_Witness ==
    /\ Running = {}
    /\ \E i \in Sweeps :
          /\ schedules[i].state = "SCHEDULED"
          /\ schedules[i].duration > 0
          /\ schedules[i].duration < duration
          /\ schedules[i].duration * Scale
                = duration * (Scale - pVals.lastTween)

\* C12: a pointer move over the armed overlay renders the frame of the
\* pointer's year and sets the label and the slider to that year, and it
\* leaves pVals (lastTween, currTween, currYear) as it was: the slider
\* update displayYear makes does not run the slide handler.  Nor does it
\* touch the transitions.
C12_ScrubIsTransient ==
    [][MouseMove =>
        /\ \E y \in PointerYears :
              /\ frame'.year = y * Scale
              /\ frame'.label = y
              /\ frame'.slider = y
        /\ frame'.by = "pointer"
        /\ UNCHANGED <<pVals, schedules, resume>>]_vars

\* C12 witness: the pointer scrubbed to a year that is not the playback
\* position: label and slider show it, pVals.currYear does not.
C12_Witness ==
    /\ frame.by = "pointer"
    /\ frame.label = SlideYear
    /\ frame.slider = SlideYear
    /\ pVals.currYear # SlideYear
    /\ IsNumber(pVals.currTween)

\* C13: the frame in which the last live sweep ends leaves the chart at the
\* range end (the ending tick computed the progress 1 and showed 2009), no
\* sweep playing, and the overlay armed by the end handler.
C13_SweepEndReachesRangeEnd ==
    [][(Frame /\ Running # {} /\ Sweeps' = {}) =>
        /\ pVals'.currTween = Scale
        /\ frame'.year = yearMax * Scale
        /\ ~PlayingIn([schedules |-> schedules'])
        /\ overlay'.armed]_vars

\* C14: a start() whose remaining duration is zero (stored progress 1)
\* does not hang: the sweep it schedules (the newest one) starts and ends in
\* one animation frame, after which no sweep is live (none playing, no tick pending) and
\* the end handler has armed the overlay.  (Every frame changes the
\* transitions it finds, which is looked at before the frame is matched.)
C14_ZeroDurationSweepEndsAtOnce ==
    [][(/\ \E i \in 1..Len(schedules) :
              /\ schedules[i].sweep
              /\ schedules[i].state = "SCHEDULED"
              /\ schedules[i].duration = 0
              /\ \A j \in (i + 1)..Len(schedules) : ~schedules[j].sweep
        /\ schedules' # schedules
        /\ Frame)
       => /\ Sweeps' = {}
          /\ ~PlayingIn([schedules |-> schedules'])
          /\ overlay'.armed]_vars

\* C14 witness: the slider was dragged to 2009 and start() has scheduled a
\* sweep of no duration, which the next frame will start.
C14_Witness ==
    /\ pVals.lastTween = Scale
    /\ pVals.currYear = yearMax
    /\ Running = {}
    /\ \E i \in Sweeps :
          schedules[i].state = "SCHEDULED" /\ schedules[i].duration = 0

\* C15: for a series of at least 2 points and a query year that is the year
\* of one of its samples (first, interior or last), interpolateValues
\* returns exactly that sample's value.
C15_ExactAtSamples ==
    (Returned /\ Len(interp.values) >= 2) =>
        \A k \in 1..Len(interp.values) :
            Year(k) = interp.year => RatEq(interp.result, Value(k))

\* C15 witness: the query was at the year of an interior sample whose
\* value differs from both its neighbours'.
C15_Witness ==
    /\ Returned
    /\ Len(interp.values) = 3
    /\ interp.year = Year(2)
    /\ Value(1) # Value(2)
    /\ Value(3) # Value(2)

\* C16: for a non-empty series and a query year at or below the first
\* sample's year, however far below, interpolateValues returns the first
\* sample's value; for a series of one point it returns that point's value
\* for every query year.
C16_FirstValueAtOrBelowFirstYear ==
    Returned =>
        /\ interp.year <= Year(1) => RatEq(interp.result, Value(1))
        /\ Len(interp.values) = 1 => RatEq(interp.result, Value(1))

\* C16 witness: the query was 100 years or more below the first sample of a
\* series whose first two values differ.
C16_Witness ==
    /\ Returned
    /\ Len(interp.values) >= 2
    /\ interp.year + 100 <= Year(1)
    /\ Value(1) # Value(2)

\* C17: for a query year strictly between two adjacent samples lower and
\* upper, interpolateValues returns lower.value * (1 - t) + upper.value * t
\* with t = (year - lower.year) / (upper.year - lower.year); for
\* [[1800,100],[1850,200],[1900,300]] the value at 1825 is 150.
C17_LinearBetweenSamples ==
    Returned =>
        /\ \A k \in 1..(Len(interp.values) - 1) :
              (Year(k) < interp.year /\ interp.year < Year(k + 1)) =>
                LET t == Rat(interp.year - Year(k), Year(k + 1) - Year(k))
                IN  RatEq(interp.result,
                          RatPlus(RatTimes(interp.values[k][2], RatOneMinus(t)),
                                  RatTimes(interp.values[k + 1][2], t)))
        /\ (/\ interp.values = <<<<1800, 100>>, <<1850, 200>>, <<1900, 300>>>>
            /\ interp.year = 1825)
           => RatEq(interp.result, Rat(150, 1))

\* C17 witness: the series of the example was asked for 1825 and a value
\* strictly between 100 and 200 came back.
C17_Witness ==
    /\ Returned
    /\ interp.values = <<<<1800, 100>>, <<1850, 200>>, <<1900, 300>>>>
    /\ interp.year = 1825
    /\ RatLess(Rat(100, 1), interp.result)
    /\ RatLess(interp.result, Rat(200, 1))

\* C19 as claimed: for a series of at least 2 points and a query year
\* beyond its last sample's year, interpolateValues does not return the
\* last sample's value.
C19_NeverLastValueBeyondEnd ==
    (/\ Returned
     /\ Len(interp.values) >= 2
     /\ interp.year > Year(Len(interp.values)))
    => ~RatEq(interp.result, Value(Len(interp.values)))

\* C19, amended: for such a series and query year interpolateValues returns
\* the point at the query year on the line through the last two samples:
\* the last value when the last two values are equal, and otherwise a value
\* beyond the last one, on the side away from the one before it.
C19_ExtrapolatesBeyondEnd ==
    (/\ Returned
     /\ Len(interp.values) >= 2
     /\ interp.year > Year(Len(interp.values)))
    => LET n == Len(interp.values)
           last == interp.values[n]
           prev == interp.values[n - 1]
           line == Rat(last[2] * (last[1] - prev[1])
                            + (last[2] - prev[2]) * (interp.year - last[1]),
                       last[1] - prev[1])
       IN  /\ RatEq(interp.result, line)
           /\ RatEq(interp.result, Value(n)) <=> last[2] = prev[2]
           /\ last[2] > prev[2] => RatLess(Value(n), interp.result)
           /\ last[2] < prev[2] => RatLess(interp.result, Value(n))

\* C19 witness: a query beyond the last sample of a series whose last two
\* values differ returned something else than the last value.
C19_Witness ==
    /\ Returned
    /\ Len(interp.values) = 3
    /\ interp.year > Year(3)
    /\ Value(3) # Value(2)
    /\ ~RatEq(interp.result, Value(3))

\* C18: while no sweep plays, a slider drag to year y sets currYear = y and
\* lastTween = (y - 1800) / 209 and renders the frame of y; a start() that
\* follows schedules a sweep of duration 209000 * (1 - (y - 1800) / 209),
\* and that sweep begins at year y: its first tick, taken at zero elapsed
\* time, shows y.
C18_ScrubThenPlay ==
    [][/\ (Slide /\ ~Playing) =>
            \E y \in SliderValues :
                /\ pVals'.currYear = y
                /\ pVals'.lastTween * allWidth = (y - yearMin) * Scale
                /\ frame'.year = y * Scale
                /\ frame'.by = "slide"
       /\ (StartPlaying /\ frame.by = "slide" /\ ~frame.playing
              /\ Sweeps = {}) =>
            LET s == schedules'[Len(schedules')]
            IN  /\ s.sweep
                /\ s.duration * allWidth
                      = duration * (yearMax - pVals.currYear)
       /\ (/\ Frame /\ frame.by = "slide" /\ ~frame.playing
           /\ Len(schedules) = 1
           /\ schedules[1].sweep
           /\ schedules[1].state = "SCHEDULED"
           /\ schedules[1].duration * allWidth
                 = duration * (yearMax - pVals.currYear)
           /\ \/ schedules[1].duration <= 0
              \/ schedules' # <<>> /\ schedules'[1].elapsed = 0) =>
            /\ frame'.by = "tick"
            /\ MathRound(frame'.year) = pVals.currYear]_vars

====
